---- MODULE Spec2Model ----
(***************************************************************************)
(* Horner evaluation of polynomials (crate horner, src/lib.rs).           *)
(*                                                                         *)
(* The evaluators are generic over T: Zero + MulAddAssign + Copy.  The    *)
(* model instantiates T with a signed two's-complement integer of         *)
(* BitWidth bits, whose mul_add_assign(a, b) assigns self times a plus b.  *)
(* A build with overflow checks panics when the product or the sum leaves *)
(* the type; a build without them wraps.  One behaviour fixes a build, an  *)
(* evaluation point x and a coefficient slice, and calls the evaluators on *)
(* them, in any order, stepping through the loop of                      *)
(* eval_any_rank_polynomial one iteration at a time.                      *)
(***************************************************************************)
EXTENDS Integers, Sequences, FiniteSets

VARIABLES
  overflow_checks,  \* the build: TRUE = arithmetic overflow panics, FALSE = wraps
  x,                \* argument x
  coefficients,     \* argument coefficients (the whole slice)
  fn,               \* the entry point whose call is running ("none" between calls)
  frame,            \* the arguments eval_any_rank_polynomial was entered with
  pc,               \* position in eval_any_rank_polynomial: "idle", "entry", "loop"
  val,              \* local `val`
  it,               \* local `it`: the coefficients the iterator has yet to yield
  consumed,         \* history: the coefficients taken so far, in the order taken
  steps,            \* history: number of mul_add_assign calls of the running call
  outcome           \* per entry point: how its call ended

vars == <<overflow_checks, x, coefficients, fn, frame, pc, val, it, consumed, steps, outcome>>

-----------------------------------------------------------------------------
(* Bounds of the model *)

BitWidth == 13
MaxLen == 3

-----------------------------------------------------------------------------
(* The numeric type T *)

Modulus == 2 ^ BitWidth
MinT == -(2 ^ (BitWidth - 1))
MaxT == (2 ^ (BitWidth - 1)) - 1
T == MinT .. MaxT

\* Two's-complement wrap-around of an integer into T.
Wrap(n) == ((n - MinT) % Modulus) + MinT

\* T::zero()
Zero == 0

\* Mutant of Overflows: only the product is checked.
OverflowsProductOnly(v, a, b) == (v * a) \notin T

\* Whether `(v * a) + b` leaves T at the product or at the sum.
Overflows(v, a, b) == (v * a) \notin T \/ ((v * a) + b) \notin T

\* Mutants of MulAdd: the operands mixed up (val + x * k), and the addend
\* mistaken for x (val * x + x).
MulAddOperandsSwapped(v, a, b) == Wrap(v + Wrap(a * b))

MulAddAddsX(v, a, b) == Wrap(Wrap(v * a) + a)

\* val.mul_add_assign(a, b) for an integer T: the new value of val.
MulAdd(v, a, b) == Wrap(Wrap(v * a) + b)

-----------------------------------------------------------------------------
(* Inputs *)

XVals == {MinT, -4, 0, 5, MaxT}
CVals == {MinT, -1, 0, 1, MaxT}

RECURSIVE SeqsOfLen(_, _)
SeqsOfLen(S, n) ==
  IF n = 0 THEN {<<>>}
  ELSE {Append(s, e) : s \in SeqsOfLen(S, n - 1), e \in S}

\* The documented calls: 72x^2+81x+99, the constant 42, x+4.
DocSeqs == {<<72, 81, 99>>, <<42>>, <<1, 4>>}

CoeffSeqs == UNION {SeqsOfLen(CVals, n) : n \in 0 .. MaxLen} \cup DocSeqs

EntryPoints == {"any", "known", "strict"}

NotCalled == [status |-> "none", value |-> Zero, steps |-> 0]
Returned(v, n) == [status |-> "ok", value |-> v, steps |-> n]
Panicked(n) == [status |-> "panic", value |-> Zero, steps |-> n]
CardinalityTooLow == [status |-> "CardinalityTooLow", value |-> Zero, steps |-> 0]

-----------------------------------------------------------------------------
(* The state machine *)

NoFrame == [x |-> Zero, coefficients |-> <<>>]

Init ==
  /\ overflow_checks \in BOOLEAN
  /\ x \in XVals
  /\ coefficients \in CoeffSeqs
  /\ fn = "none"
  /\ frame = NoFrame
  /\ pc = "idle"
  /\ val = Zero
  /\ it = <<>>
  /\ consumed = <<>>
  /\ steps = 0
  /\ outcome = [f \in EntryPoints |-> NotCalled]

\* A caller invokes eval_any_rank_polynomial(x, coefficients).
CallAnyRank ==
  /\ pc = "idle"
  /\ outcome["any"].status = "none"
  /\ fn' = "any"
  /\ frame' = [x |-> x, coefficients |-> coefficients]
  /\ pc' = "entry"
  /\ UNCHANGED <<overflow_checks, x, coefficients, val, it, consumed, steps, outcome>>

\* Mutant of KnownRankArgs: the last element of the array is not passed on.
KnownRankArgsDropsLast(xx, cs) ==
  [x |-> xx, coefficients |-> SubSeq(cs, 1, Len(cs) - 1)]

\* The arguments eval_known_rank_polynomial hands to eval_any_rank_polynomial.
KnownRankArgs(xx, cs) == [x |-> xx, coefficients |-> cs]

\* eval_known_rank_polynomial(x, coefficients): its body is the call of
\* eval_any_rank_polynomial, whose result it returns.
CallKnownRank ==
  /\ pc = "idle"
  /\ outcome["known"].status = "none"
  /\ fn' = "known"
  /\ frame' = KnownRankArgs(x, coefficients)
  /\ pc' = "entry"
  /\ UNCHANGED <<overflow_checks, x, coefficients, val, it, consumed, steps, outcome>>

\* Mutant of SplitFirst: split_last in place of split_first.
SplitFirstTakesLast ==
  /\ pc = "entry"
  /\ \/ /\ frame.coefficients # <<>>
        /\ val' = frame.coefficients[Len(frame.coefficients)]
        /\ it' = SubSeq(frame.coefficients, 1, Len(frame.coefficients) - 1)
        /\ consumed' = <<frame.coefficients[Len(frame.coefficients)]>>
        /\ pc' = "loop"
        /\ UNCHANGED <<fn, frame, outcome>>
     \/ /\ frame.coefficients = <<>>
        /\ outcome' = [outcome EXCEPT ![fn] = Returned(Zero, steps)]
        /\ pc' = "idle"
        /\ fn' = "none"
        /\ frame' = NoFrame
        /\ UNCHANGED <<val, it, consumed>>
  /\ UNCHANGED <<overflow_checks, x, coefficients, steps>>

\* Mutant of SplitFirst: the iterator runs over the whole slice, head included.
SplitFirstKeepsHead ==
  /\ pc = "entry"
  /\ \/ /\ frame.coefficients # <<>>
        /\ val' = Head(frame.coefficients)
        /\ it' = frame.coefficients
        /\ consumed' = <<Head(frame.coefficients)>>
        /\ pc' = "loop"
        /\ UNCHANGED <<fn, frame, outcome>>
     \/ /\ frame.coefficients = <<>>
        /\ outcome' = [outcome EXCEPT ![fn] = Returned(Zero, steps)]
        /\ pc' = "idle"
        /\ fn' = "none"
        /\ frame' = NoFrame
        /\ UNCHANGED <<val, it, consumed>>
  /\ UNCHANGED <<overflow_checks, x, coefficients, steps>>

\* Mutant of SplitFirst: the empty slice returns x in place of T::zero().
SplitFirstEmptyReturnsX ==
  /\ pc = "entry"
  /\ \/ /\ frame.coefficients # <<>>
        /\ val' = Head(frame.coefficients)
        /\ it' = Tail(frame.coefficients)
        /\ consumed' = <<Head(frame.coefficients)>>
        /\ pc' = "loop"
        /\ UNCHANGED <<fn, frame, outcome>>
     \/ /\ frame.coefficients = <<>>
        /\ outcome' = [outcome EXCEPT ![fn] = Returned(frame.x, steps)]
        /\ pc' = "idle"
        /\ fn' = "none"
        /\ frame' = NoFrame
        /\ UNCHANGED <<val, it, consumed>>
  /\ UNCHANGED <<overflow_checks, x, coefficients, steps>>

\* `if let Some((&k, coefficients)) = coefficients.split_first()`: a non-empty
\* slice seeds val with its head and iterates over the rest; an empty one
\* returns T::zero().
SplitFirst ==
  /\ pc = "entry"
  /\ \/ /\ frame.coefficients # <<>>
        /\ val' = Head(frame.coefficients)
        /\ it' = Tail(frame.coefficients)
        /\ consumed' = <<Head(frame.coefficients)>>
        /\ pc' = "loop"
        /\ UNCHANGED <<fn, frame, outcome>>
     \/ /\ frame.coefficients = <<>>
        /\ outcome' = [outcome EXCEPT ![fn] = Returned(Zero, steps)]
        /\ pc' = "idle"
        /\ fn' = "none"
        /\ frame' = NoFrame
        /\ UNCHANGED <<val, it, consumed>>
  /\ UNCHANGED <<overflow_checks, x, coefficients, steps>>

\* Mutant of LoopStep: next_back in place of next.
LoopStepFromBack ==
  /\ pc = "loop"
  /\ it # <<>>
  /\ LET k == it[Len(it)] IN
       \/ /\ ~(overflow_checks /\ Overflows(val, frame.x, k))
          /\ val' = MulAdd(val, frame.x, k)
          /\ it' = SubSeq(it, 1, Len(it) - 1)
          /\ consumed' = Append(consumed, k)
          /\ steps' = steps + 1
          /\ UNCHANGED <<fn, frame, pc, outcome>>
       \/ /\ overflow_checks /\ Overflows(val, frame.x, k)
          /\ outcome' = [outcome EXCEPT ![fn] = Panicked(steps + 1)]
          /\ pc' = "idle"
          /\ fn' = "none"
          /\ frame' = NoFrame
          /\ val' = Zero
          /\ it' = <<>>
          /\ consumed' = <<>>
          /\ steps' = 0
  /\ UNCHANGED <<overflow_checks, x, coefficients>>

\* One iteration of `while let Some(&k) = it.next() { val.mul_add_assign(x, k); }`:
\* the next coefficient is folded into val, or the arithmetic of
\* mul_add_assign overflows in a build that checks for it and the call panics.
LoopStep ==
  /\ pc = "loop"
  /\ it # <<>>
  /\ LET k == Head(it) IN
       \/ /\ ~(overflow_checks /\ Overflows(val, frame.x, k))
          /\ val' = MulAdd(val, frame.x, k)
          /\ it' = Tail(it)
          /\ consumed' = Append(consumed, k)
          /\ steps' = steps + 1
          /\ UNCHANGED <<fn, frame, pc, outcome>>
       \/ /\ overflow_checks /\ Overflows(val, frame.x, k)
          /\ outcome' = [outcome EXCEPT ![fn] = Panicked(steps + 1)]
          /\ pc' = "idle"
          /\ fn' = "none"
          /\ frame' = NoFrame
          /\ val' = Zero
          /\ it' = <<>>
          /\ consumed' = <<>>
          /\ steps' = 0
  /\ UNCHANGED <<overflow_checks, x, coefficients>>

\* Mutant of LoopExit: the loop is left one coefficient early.
LoopExitOneEarly ==
  /\ pc = "loop"
  /\ Len(it) <= 1
  /\ outcome' = [outcome EXCEPT ![fn] = Returned(val, steps)]
  /\ pc' = "idle"
  /\ fn' = "none"
  /\ frame' = NoFrame
  /\ val' = Zero
  /\ it' = <<>>
  /\ consumed' = <<>>
  /\ steps' = 0
  /\ UNCHANGED <<overflow_checks, x, coefficients>>

\* it.next() is None: the loop ends and the function returns val.
LoopExit ==
  /\ pc = "loop"
  /\ it = <<>>
  /\ outcome' = [outcome EXCEPT ![fn] = Returned(val, steps)]
  /\ pc' = "idle"
  /\ fn' = "none"
  /\ frame' = NoFrame
  /\ val' = Zero
  /\ it' = <<>>
  /\ consumed' = <<>>
  /\ steps' = 0
  /\ UNCHANGED <<overflow_checks, x, coefficients>>

\* The reduction `result = c0; for i in 1..n: result = result * x + c_i` of the
\* strict evaluator, from accumulator acc over the coefficients in rest.
RECURSIVE Reduce(_, _, _, _, _)
Reduce(checks, xx, acc, rest, n) ==
  IF rest = <<>> THEN Returned(acc, n)
  ELSE IF checks /\ Overflows(acc, xx, Head(rest)) THEN Panicked(n + 1)
  ELSE Reduce(checks, xx, MulAdd(acc, xx, Head(rest)), Tail(rest), n + 1)

\* Mutant of try_eval_polynomial: the empty sequence is taken for the zero
\* polynomial.
try_eval_polynomial_lenient(checks, xx, cs) ==
  IF cs = <<>> THEN Returned(Zero, 0)
  ELSE Reduce(checks, xx, Head(cs), Tail(cs), 0)

\* The strict evaluator: CardinalityTooLow on an empty sequence, otherwise Ok
\* of the reduction over the full sequence.
try_eval_polynomial(checks, xx, cs) ==
  IF cs = <<>> THEN CardinalityTooLow
  ELSE Reduce(checks, xx, Head(cs), Tail(cs), 0)

\* A caller invokes the strict evaluator on (x, coefficients).
CallStrict ==
  /\ pc = "idle"
  /\ outcome["strict"].status = "none"
  /\ outcome' = [outcome EXCEPT
                   !["strict"] = try_eval_polynomial(overflow_checks, x, coefficients)]
  /\ UNCHANGED <<overflow_checks, x, coefficients, fn, frame, pc, val, it, consumed, steps>>

Next ==
  \/ CallAnyRank
  \/ CallKnownRank
  \/ CallStrict
  \/ SplitFirst
  \/ LoopStep
  \/ LoopExit

Spec == Init /\ [][Next]_vars

\* A call is synchronous and runs to completion.
FairSpec == Spec /\ WF_vars(Next)

-----------------------------------------------------------------------------
(* Reference values, written independently of the loop *)

Front(cs) == SubSeq(cs, 1, Len(cs) - 1)
Last(cs) == cs[Len(cs)]

\* The nested form (((c0*x + c1)*x + c2)*x + ...) + c_{n-1}, unfolded from the
\* outermost addition inwards, in the arithmetic of T.
RECURSIVE HornerRef(_, _)
HornerRef(xx, cs) ==
  IF Len(cs) = 1 THEN cs[1]
  ELSE Wrap(Wrap(HornerRef(xx, Front(cs)) * xx) + Last(cs))

\* x^e in the arithmetic of T.
RECURSIVE WPow(_, _)
WPow(xx, e) == IF e = 0 THEN 1 ELSE Wrap(xx * WPow(xx, e - 1))

\* c0*x^(n-1) + c1*x^(n-2) + ... + c_{n-1}*x^0 in the arithmetic of T, term by
\* term from the head (highest power) down to the constant term.
RECURSIVE PowerSumFrom(_, _, _)
PowerSumFrom(xx, cs, i) ==
  IF i > Len(cs) THEN 0
  ELSE Wrap(Wrap(cs[i] * WPow(xx, Len(cs) - i)) + PowerSumFrom(xx, cs, i + 1))

PowerSum(xx, cs) == PowerSumFrom(xx, cs, 1)

\* Whether some multiply-add of the nested form leaves T, at the product or at
\* the sum.
RECURSIVE HornerTraps(_, _)
HornerTraps(xx, cs) ==
  /\ Len(cs) >= 2
  /\ \/ HornerTraps(xx, Front(cs))
     \/ (HornerRef(xx, Front(cs)) * xx) \notin T
     \/ ((HornerRef(xx, Front(cs)) * xx) + Last(cs)) \notin T

AllZero(cs) == \A i \in 1 .. Len(cs) : cs[i] = Zero

Completed(f) == outcome[f].status # "none"

-----------------------------------------------------------------------------
(* Claims *)

\* C1: on a non-empty coefficient sequence eval_any_rank_polynomial returns the
\* Horner reduction: c0, then result * x + c_i for each following coefficient
\* in sequence order.
C1_ReturnsHornerReduction ==
  (outcome["any"].status = "ok" /\ coefficients # <<>>)
    => outcome["any"].value = HornerRef(x, coefficients)

C1_Witness ==
  /\ outcome["any"].status = "ok"
  /\ x = -4
  /\ coefficients = <<1, -1, MaxT>>
  /\ ~overflow_checks
  /\ outcome["any"].value = MinT + 19

\* C2: on a non-empty coefficient sequence the result of
\* eval_any_rank_polynomial is the power sum c0*x^(n-1) + ... + c_{n-1}, the
\* head being the coefficient of the highest power; at x = 5 the sequence
\* [72, 81, 99] gives 72*5^2 + 81*5 + 99, which is 2304.
C2_EqualsPowerSum ==
  /\ (outcome["any"].status = "ok" /\ coefficients # <<>>)
       => outcome["any"].value = PowerSum(x, coefficients)
  /\ (Completed("any") /\ x = 5 /\ coefficients = <<72, 81, 99>>)
       => outcome["any"] = Returned(2304, 2)

C2_Witness ==
  /\ x = 5
  /\ coefficients = <<72, 81, 99>>
  /\ outcome["any"].status = "ok"
  /\ outcome["any"].value = (72 * 5 * 5) + (81 * 5) + 99

\* C2 as stated: the power sum, with 2214 as the value of 72*5^2 + 81*5 + 99.
C2_AsStated ==
  /\ (outcome["any"].status = "ok" /\ coefficients # <<>>)
       => outcome["any"].value = PowerSum(x, coefficients)
  /\ (Completed("any") /\ x = 5 /\ coefficients = <<72, 81, 99>>)
       => outcome["any"] = Returned(2214, 2)

\* C3: on the empty coefficient sequence eval_any_rank_polynomial returns the
\* zero of the numeric type, whatever x is.
C3_EmptyIsZero ==
  (Completed("any") /\ coefficients = <<>>)
    => (outcome["any"].status = "ok" /\ outcome["any"].value = Zero)

C3_Witness ==
  /\ coefficients = <<>>
  /\ x = MaxT
  /\ outcome["any"].status = "ok"
  /\ outcome["any"].value = 0

\* C4: on a single coefficient k eval_any_rank_polynomial returns k, whatever x
\* is, and applies no multiply-add step.
C4_SingleCoefficientIsConstant ==
  (Completed("any") /\ Len(coefficients) = 1)
    => outcome["any"] = Returned(coefficients[1], 0)

C4_Witness ==
  /\ coefficients = <<42>>
  /\ x = MaxT
  /\ outcome["any"].status = "ok"
  /\ outcome["any"].value = 42
  /\ outcome["any"].steps = 0

\* C5: on a sequence of m >= 0 zeros eval_any_rank_polynomial returns what it
\* returns on the empty sequence, the zero of the numeric type.
C5_AllZeroIsZero ==
  (Completed("any") /\ AllZero(coefficients))
    => (outcome["any"].status = "ok" /\ outcome["any"].value = Zero)

C5_Witness ==
  /\ coefficients = <<0, 0, 0>>
  /\ x = MinT
  /\ overflow_checks
  /\ outcome["any"].status = "ok"
  /\ outcome["any"].value = 0

\* C6: on the same x and coefficients eval_known_rank_polynomial ends exactly
\* as eval_any_rank_polynomial does; at x = -4 the array [1, 4] gives 0.
C6_KnownRankEqualsAnyRank ==
  /\ (Completed("known") /\ Completed("any")) => outcome["known"] = outcome["any"]
  /\ (Completed("known") /\ x = -4 /\ coefficients = <<1, 4>>)
       => (outcome["known"].status = "ok" /\ outcome["known"].value = 0)

C6_Witness ==
  /\ x = -4
  /\ coefficients = <<1, 4>>
  /\ outcome["known"].status = "ok"
  /\ outcome["any"].status = "ok"
  /\ outcome["known"].value = 0
  /\ outcome["any"].value = 0

\* C7: the strict evaluator fails with CardinalityTooLow on an empty
\* coefficient sequence and never otherwise; on a non-empty one what it returns
\* is the Horner reduction.
C7_StrictEvaluator ==
  Completed("strict") =>
    /\ (coefficients = <<>>) <=> (outcome["strict"] = CardinalityTooLow)
    /\ (coefficients # <<>>) => outcome["strict"].status \in {"ok", "panic"}
    /\ outcome["strict"].status = "ok"
         => outcome["strict"].value = HornerRef(x, coefficients)

C7_Witness ==
  /\ coefficients = <<>>
  /\ x = 5
  /\ outcome["strict"].status = "CardinalityTooLow"

\* What holds of a call of the lenient or the fixed-rank evaluator at every
\* point: the accumulator and a returned value are values of T, the call ends
\* in no error value, and it panics exactly in a build with overflow checks,
\* on a sequence of two or more coefficients, at a multiply-add that leaves T.
LenientCallSafe(f) ==
  /\ outcome[f].status \in {"none", "ok", "panic"}
  /\ outcome[f].value \in T
  /\ outcome[f].status = "panic"
       => (overflow_checks /\ Len(coefficients) >= 2 /\ HornerTraps(x, coefficients))
  /\ (Completed(f) /\ ~(overflow_checks /\ HornerTraps(x, coefficients)))
       => outcome[f].status = "ok"
  /\ (Completed(f) /\ overflow_checks /\ HornerTraps(x, coefficients))
       => outcome[f].status = "panic"

\* C8, amended: every call of eval_any_rank_polynomial and of
\* eval_known_rank_polynomial ends, for every x and every coefficient sequence,
\* the empty one included; it returns a value of the numeric type, except that
\* in a build with overflow checks a multiply-add that overflows the numeric
\* type ends the call in a panic.
C8_TotalUpToOverflowPanic ==
  /\ [](val \in T /\ LenientCallSafe("any") /\ LenientCallSafe("known"))
  /\ <>Completed("any")
  /\ <>Completed("known")

C8_Witness ==
  /\ overflow_checks
  /\ x = MaxT
  /\ coefficients = <<MaxT, 0, 0>>
  /\ outcome["any"].status = "panic"
  /\ outcome["known"].status = "panic"

\* C8 as stated: no call of the lenient or the fixed-rank evaluator fails.
C8_AsStated ==
  \A f \in {"any", "known"} : Completed(f) => outcome[f].status = "ok"

\* The number of multiply-add steps a sequence of n coefficients asks for.
StepsFor(cs) == IF Len(cs) = 0 THEN 0 ELSE Len(cs) - 1

\* C9, amended: the loop of eval_any_rank_polynomial ends; it takes one
\* multiply-add step per coefficient after the first, never more than n-1, and
\* a call that returns has taken exactly n-1 of them (none for n = 1 and for
\* n = 0); it stops earlier only when a step panics on overflow.
C9_StepCount ==
  /\ [](/\ steps <= StepsFor(coefficients)
        /\ pc = "loop" => steps + Len(it) = StepsFor(coefficients)
        /\ outcome["any"].status = "ok"
             => outcome["any"].steps = StepsFor(coefficients)
        /\ outcome["any"].status = "panic"
             => (overflow_checks /\ outcome["any"].steps \in 1 .. StepsFor(coefficients)))
  /\ <>Completed("any")

C9_Witness ==
  /\ Len(coefficients) = 3
  /\ outcome["any"].status = "ok"
  /\ outcome["any"].steps = 2
  /\ overflow_checks
  /\ x = 5

\* C9 as stated: a call that has ended has taken exactly n-1 steps (0 for
\* n = 0).
C9_AsStated ==
  Completed("any") =>
    (outcome["any"].status = "ok" /\ outcome["any"].steps = StepsFor(coefficients))

\* C10: in the loop, after j coefficients following c0 have been consumed, val
\* is the polynomial of the prefix [c0, ..., c_j] at x; the coefficients are
\* consumed front to back, each once, and x and the coefficients stay as
\* passed.
C10_LoopInvariant ==
  pc = "loop" =>
    /\ consumed \o it = coefficients
    /\ frame = [x |-> x, coefficients |-> coefficients]
    /\ steps = Len(consumed) - 1
    /\ val = PowerSum(x, consumed)

C10_Witness ==
  /\ pc = "loop"
  /\ x = -4
  /\ consumed = <<MaxT, -1>>
  /\ it = <<1>>
  /\ ~overflow_checks
  /\ val = 3

====
